---- MODULE Spec2Model ----
(***************************************************************************)
(* A model of app.py, the real-time train-position map viewer: the fetch  *)
(* of the vehicle document, the snapshot bootstrap at import time, the     *)
(* periodic refresh callback and the update_map callback that builds the   *)
(* map figure and the itinerary panel.                                     *)
(*                                                                         *)
(* JSON / Python values are tagged records, so that None, a missing key,   *)
(* a number, a string, an object and a list can be told apart the way the  *)
(* Python code tells them apart (truthiness, dict.get with and without a   *)
(* default, subscripting).                                                 *)
(***************************************************************************)
EXTENDS Integers, Sequences, FiniteSets, TLC

VARIABLES
    pc,             \* "boot" | "load" | "running" | "crashed": position of the process
    file,           \* vehicle_positions.json: NoFile, or the document it holds
    writes,         \* number of times the process has written the file
    vehicle_positions, \* module-level list loaded at import (None before the load)
    store,          \* dcc.Store 'vehicle-data-store'.data (None until first publish)
    lastFetch,      \* how the most recent tick's fetch went: "none" | "success" |
                    \* "failure" (non-200, exception) | "empty" (200, body null)
    lastGood,       \* the document of the most recent successful fetch (None if none)
    fetched,        \* what fetch_vehicle_data did on that tick: "none" | "data" |
                    \* "no_update" | "raised"
    clickData,      \* map-graph.clickData
    relayoutData,   \* map-graph.relayoutData
    pending,        \* the store changed and update_map has not run on it yet
    rendered        \* map-graph.figure and train-info.children as last returned by
                    \* update_map, with the status of its last invocation

vars == <<pc, file, writes, vehicle_positions, store, lastFetch, lastGood, fetched,
          clickData, relayoutData, pending, rendered>>

----------------------------------------------------------------------------
(* Python / JSON values *)

None == [tag |-> "none"]
Absent == [tag |-> "absent"]
Num(n) == [tag |-> "num", v |-> n]
Str(s) == [tag |-> "str", v |-> s]
List(s) == [tag |-> "list", v |-> s]

\* bool(x) for the values the program meets
Truthy(x) ==
    CASE x.tag = "none" -> FALSE
      [] x.tag = "absent" -> FALSE
      [] x.tag = "num" -> x.v # 0
      [] x.tag = "str" -> x.v # ""
      [] x.tag = "list" -> Len(x.v) > 0
      [] OTHER -> TRUE

\* d.get(k): the value under the key, None when the key is missing
Get(x) == IF x.tag = "absent" THEN None ELSE x

\* d.get(k, default)
GetOr(x, default) == IF x.tag = "absent" THEN default ELSE x

\* a or b
Or(a, b) == IF Truthy(a) THEN a ELSE b

\* str(x)
PyStr(x) ==
    CASE x.tag = "none" -> "None"
      [] x.tag = "str" -> x.v
      [] x.tag = "num" -> ToString(x.v)
      [] OTHER -> "?"

\* x == y on scalars
PyEq(x, y) ==
    /\ x.tag = y.tag
    /\ x.tag \in {"num", "str"} => x.v = y.v

\* isinstance(x, dict)
IsDict(x) == x.tag = "obj"

StatusOK == 200

----------------------------------------------------------------------------
(* The shape of the documents the GraphQL query asks for *)

Stop(name, lat, lon) ==
    [tag |-> "obj", name |-> Str(name), lat |-> Num(lat), lon |-> Num(lon)]

StopTime(stop, sa, ra, sd, rd, delay) ==
    [tag |-> "obj", stop |-> stop,
     scheduledArrival |-> sa, realtimeArrival |-> ra, arrivalDelay |-> delay,
     scheduledDeparture |-> sd, realtimeDeparture |-> rd]

Route(longName) == [tag |-> "obj", longName |-> longName]

Trip(shortName, gtfsId, route, stoptimes) ==
    [tag |-> "obj", tripShortName |-> shortName, gtfsId |-> gtfsId,
     route |-> route, stoptimes |-> stoptimes]

PrevStop(delay) == [tag |-> "obj", arrivalDelay |-> delay]

VehicleFull(id, lat, lon, heading, speed, prev, trip) ==
    [tag |-> "obj", vehicleId |-> id, lat |-> lat, lon |-> lon,
     heading |-> heading, speed |-> speed, prevOrCurrentStop |-> prev,
     trip |-> trip]

Vehicle(id, lat, lon, heading, trip) ==
    VehicleFull(id, lat, lon, heading, Num(80), PrevStop(Num(60)), trip)

\* {"data": {"vehiclePositions": [...]}}
Doc(vs) == [tag |-> "obj", data |-> [tag |-> "obj", vehiclePositions |-> List(vs)]]

\* the empty dict {} read as a trip, a route, a prevOrCurrentStop
EmptyTrip == Trip(Absent, Absent, Absent, Absent)
EmptyRoute == Route(Absent)
EmptyPrevStop == PrevStop(Absent)

----------------------------------------------------------------------------
(* Data Fetcher: get_latest_vehicle_data *)

\* What requests.post and response.json() produce.  A transport failure
\* (timeout, connection error) and a body that is not JSON both raise inside
\* the try block.
HttpOk(status, body) == [kind |-> "response", status |-> status, body |-> body]
HttpException == [kind |-> "exception", status |-> 0, body |-> None]
BadJson == [tag |-> "badjson"]

\* the body of the try block: the value returned, or raised = TRUE
TryFetch(resp) ==
    IF resp.kind = "exception" THEN [raised |-> TRUE, value |-> None]
    ELSE IF resp.status = StatusOK
         THEN IF resp.body.tag = "badjson"
              THEN [raised |-> TRUE, value |-> None]
              ELSE [raised |-> FALSE, value |-> resp.body]
         ELSE [raised |-> FALSE, value |-> None]

\* try: ... except Exception: return None
get_latest_vehicle_data(resp) ==
    IF TryFetch(resp).raised
    THEN [raised |-> FALSE, value |-> None]
    ELSE TryFetch(resp)

----------------------------------------------------------------------------
(* Train Projection: get_train_info *)

\* vehicle.get('trip', {}) and vehicle.get('prevOrCurrentStop', {})
TripOf(v) == GetOr(v.trip, EmptyTrip)
PrevStopOf(v) == GetOr(v.prevOrCurrentStop, EmptyPrevStop)

\* trip.get(...) and {...}.get(...) raise AttributeError on None
get_train_info_raises(v) ==
    \/ ~IsDict(TripOf(v))
    \/ ~IsDict(PrevStopOf(v))

get_train_info(v) ==
    [name |-> Or(Get(TripOf(v).tripShortName), GetOr(v.vehicleId, Str("Unknown"))),
     lat |-> Get(v.lat),
     lon |-> Get(v.lon),
     speed |-> GetOr(v.speed, Str("N/A")),
     delay |-> GetOr(PrevStopOf(v).arrivalDelay, Str("N/A")),
     stoptimes |-> GetOr(TripOf(v).stoptimes, List(<<>>)),
     gtfsId |-> Get(TripOf(v).gtfsId),
     route |-> GetOr(TripOf(v).route, EmptyRoute),
     vehicleId |-> Get(v.vehicleId)]

\* a filter that tests "is not None" where the code tests truthiness
PlottedIfNotNone(v) == Get(v.lat).tag # "none" /\ Get(v.lon).tag # "none"

\* the filter of the comprehension: v.get('lat') and v.get('lon')
Plotted(v) == Truthy(Get(v.lat)) /\ Truthy(Get(v.lon))

\* [f(v) for v in vs if Plotted(v)]
RECURSIVE PlottedOf(_)
PlottedOf(vs) ==
    IF vs = <<>> THEN <<>>
    ELSE IF Plotted(Head(vs)) THEN <<Head(vs)>> \o PlottedOf(Tail(vs))
         ELSE PlottedOf(Tail(vs))

\* trains = [get_train_info(v) for v in vehicle_positions if ...]
TrainsRaise(vs) == \E i \in 1..Len(vs) : Plotted(vs[i]) /\ get_train_info_raises(vs[i])
Trains(vs) == [i \in 1..Len(PlottedOf(vs)) |-> get_train_info(PlottedOf(vs)[i])]

----------------------------------------------------------------------------
(* Map Renderer: colors, viewport, heading arrows *)

SelectionColor == "#e67e22"
DefaultColor == "blue"
ZoomThreshold == 12
DefaultZoom == 7
\* center=dict(lat=47.1625, lon=19.5033), in units of 1e-4 degree
CenterLat == 471625
CenterLon == 195033

\* str(v.get('vehicleId') or v.get('trip', {}).get('tripShortName') or 'unknown')
VidRaises(v) == ~Truthy(Get(v.vehicleId)) /\ ~IsDict(TripOf(v))
Vid(v) ==
    IF Truthy(Get(v.vehicleId)) THEN PyStr(Get(v.vehicleId))
    ELSE IF Truthy(Get(TripOf(v).tripShortName)) THEN PyStr(Get(TripOf(v).tripShortName))
    ELSE "unknown"

\* one color per record of vehicle_positions, plotted or not
get_marker_colors_raises(vs) == \E i \in 1..Len(vs) : VidRaises(vs[i])
get_marker_colors(vs, selected_vehicle_id) ==
    [i \in 1..Len(vs) |->
        IF Truthy(selected_vehicle_id) /\ Vid(vs[i]) = selected_vehicle_id.v
        THEN SelectionColor ELSE DefaultColor]

\* clickData: None, or a click whose first point carries customdata or not
Click(customdata) == [tag |-> "obj", customdata |-> customdata]
HasPoints(cd) == Truthy(cd)

\* clickData['points'][0]['customdata'] raises KeyError without the key
get_selected_vehicle_id_raises(cd) == HasPoints(cd) /\ cd.customdata.tag = "absent"
get_selected_vehicle_id(cd) ==
    IF HasPoints(cd) THEN Str(PyStr(cd.customdata)) ELSE None

\* relayoutData: None, or the keys of the last relayout event
Relayout(zoom, coordinates) == [tag |-> "obj", zoom |-> zoom, coordinates |-> coordinates]

SeqMin(s) == CHOOSE x \in {s[i] : i \in 1..Len(s)} : \A j \in 1..Len(s) : x <= s[j]
SeqMax(s) == CHOOSE x \in {s[i] : i \in 1..Len(s)} : \A j \in 1..Len(s) : x >= s[j]

\* coordinates are <<lon, lat>> pairs
get_bounds(rd) ==
    [zoom |-> IF Truthy(rd) /\ rd.zoom.tag # "absent" THEN rd.zoom.v ELSE DefaultZoom,
     bounds |->
        IF Truthy(rd) /\ rd.coordinates.tag # "absent"
        THEN LET coords == rd.coordinates.v
                 lats == [i \in 1..Len(coords) |-> coords[i][2]]
                 lons == [i \in 1..Len(coords) |-> coords[i][1]]
             IN [tag |-> "obj", lat_min |-> SeqMin(lats), lat_max |-> SeqMax(lats),
                 lon_min |-> SeqMin(lons), lon_max |-> SeqMax(lons)]
        ELSE None]

InBounds(bounds, t) ==
    /\ bounds.lat_min <= t.lat.v /\ t.lat.v <= bounds.lat_max
    /\ bounds.lon_min <= t.lon.v /\ t.lon.v <= bounds.lon_max

\* the heading of the first record of the document at the train's coordinates
HeadingOf(vs, t) ==
    LET hits == {i \in 1..Len(vs) : PyEq(Get(vs[i].lat), t.lat) /\ PyEq(Get(vs[i].lon), t.lon)}
    IN IF hits = {} THEN None
       ELSE Get(vs[CHOOSE i \in hits : \A j \in hits : i <= j].heading)

\* arrows for every train with a heading, wherever it is
ArrowedAnywhere(trains, vs, bounds, zoom) ==
    IF zoom < ZoomThreshold THEN {}
    ELSE {i \in 1..Len(trains) : HeadingOf(vs, trains[i]).tag # "none"}

\* the trains (by index) that get an arrow
Arrowed(trains, vs, bounds, zoom) ==
    IF zoom < ZoomThreshold THEN {}
    ELSE {i \in 1..Len(trains) :
            /\ Truthy(bounds) => InBounds(bounds, trains[i])
            /\ HeadingOf(vs, trains[i]).tag # "none"}

RECURSIVE SeqOfSet(_)
SeqOfSet(S) ==
    IF S = {} THEN <<>>
    ELSE LET m == CHOOSE x \in S : \A y \in S : x <= y
         IN <<m>> \o SeqOfSet(S \ {m})

\* the traces add_heading_arrows adds: one line per arrowed train, then the
\* arrow heads.  The line runs 0.003 degrees from the train's position along
\* its heading; the trace keeps the origin and the heading.
add_heading_arrows(trains, vs, bounds, zoom) ==
    LET idx == SeqOfSet(Arrowed(trains, vs, bounds, zoom))
        lines == [k \in 1..Len(idx) |->
                    [name |-> "HeadingLine",
                     lat |-> trains[idx[k]].lat.v, lon |-> trains[idx[k]].lon.v,
                     heading |-> HeadingOf(vs, trains[idx[k]]).v]]
        heads == [name |-> "HeadingArrow",
                  customdata |-> [k \in 1..Len(idx) |-> idx[k] - 1],
                  lat |-> [k \in 1..Len(idx) |-> trains[idx[k]].lat.v],
                  lon |-> [k \in 1..Len(idx) |-> trains[idx[k]].lon.v],
                  heading |-> [k \in 1..Len(idx) |-> HeadingOf(vs, trains[idx[k]]).v]]
    IN IF Len(idx) = 0 THEN <<>> ELSE lines \o <<heads>>

\* the 'Trains' marker layer
TrainsTrace(vs, selected_vehicle_id) ==
    LET trains == Trains(vs)
    IN [name |-> "Trains",
        lat |-> [i \in 1..Len(trains) |-> trains[i].lat.v],
        lon |-> [i \in 1..Len(trains) |-> trains[i].lon.v],
        color |-> get_marker_colors(vs, selected_vehicle_id),
        text |-> [i \in 1..Len(trains) |->
                    <<PyStr(trains[i].name), PyStr(trains[i].speed), PyStr(trains[i].delay)>>],
        customdata |-> [i \in 1..Len(PlottedOf(vs)) |-> Vid(PlottedOf(vs)[i])]]

----------------------------------------------------------------------------
(* Route Detail Renderer: next stop, delay, itinerary rows *)

Red == "#e74c3c"
Green == "#2ecc40"
Highlight == "#d6eaf8"

\* f"{n:02}"
Pad2(n) == IF 0 <= n /\ n < 10 THEN "0" \o ToString(n) ELSE ToString(n)

\* f"{n:+}"
Signed(n) == IF n >= 0 THEN "+" \o ToString(n) ELSE ToString(n)

seconds_to_hhmm(seconds) ==
    IF seconds.tag = "none" \/ (seconds.tag = "str" /\ seconds.v = "") THEN ""
    ELSE Pad2(seconds.v \div 3600) \o ":" \o Pad2((seconds.v % 3600) \div 60)

\* (arr and arr > now_sec) or (dep and dep > now_sec)
Upcoming(s, now_sec) ==
    \/ Truthy(Get(s.realtimeArrival)) /\ Get(s.realtimeArrival).v > now_sec
    \/ Truthy(Get(s.realtimeDeparture)) /\ Get(s.realtimeDeparture).v > now_sec

\* a search that keeps the last upcoming stop (a loop without its break)
NextStopIdxNoBreak(stops, now_sec) ==
    LET hits == {i \in 1..Len(stops) : Upcoming(stops[i], now_sec)}
    IN IF hits = {} THEN 0 ELSE CHOOSE i \in hits : \A j \in hits : i >= j

\* next_stop_idx as a position 1..Len(stops); 0 stands for None
NextStopIdx(stops, now_sec) ==
    LET hits == {i \in 1..Len(stops) : Upcoming(stops[i], now_sec)}
    IN IF hits = {} THEN 0 ELSE CHOOSE i \in hits : \A j \in hits : i <= j

\* delay_val: the arrival delay of the next stop, or of the last stop
DelayVal(stops, now_sec) ==
    IF NextStopIdx(stops, now_sec) # 0
    THEN Get(stops[NextStopIdx(stops, now_sec)].arrivalDelay)
    ELSE Get(stops[Len(stops)].arrivalDelay)

DelayMin(delay_val) ==
    IF delay_val.tag # "none" THEN Signed(delay_val.v \div 60) \o " min" ELSE ""

DelayColor(delay_val) ==
    IF Truthy(delay_val) /\ delay_val.v > 0 THEN SelectionColor ELSE Green

\* the struck-through span of a cell: the scheduled time, or None
Struck(scheduled, realtime) ==
    IF Truthy(realtime) /\ Truthy(scheduled) /\ realtime.v # scheduled.v
    THEN Str(seconds_to_hhmm(scheduled)) ELSE None

\* the bold span of a cell: its text and its color
Shown(scheduled, realtime) ==
    IF Truthy(realtime)
    THEN [text |-> seconds_to_hhmm(realtime),
          color |-> IF Truthy(realtime) /\ Truthy(scheduled) /\ realtime.v > scheduled.v
                    THEN Red ELSE Green]
    ELSE [text |-> seconds_to_hhmm(scheduled), color |-> Green]

StopRow(s, i, next_stop_idx) ==
    [kind |-> "row", stop_index |-> i,
     arr_struck |-> Struck(Get(s.scheduledArrival), Get(s.realtimeArrival)),
     arr |-> Shown(Get(s.scheduledArrival), Get(s.realtimeArrival)),
     dep_struck |-> Struck(Get(s.scheduledDeparture), Get(s.realtimeDeparture)),
     dep |-> Shown(Get(s.scheduledDeparture), Get(s.realtimeDeparture)),
     name |-> s.stop.name.v,
     background |-> IF i = next_stop_idx THEN Highlight ELSE "none"]

Divider == [kind |-> "divider"]

\* stop_rows for stops[i..]: a stop-time without a stop is skipped (continue)
RECURSIVE StopRows(_, _, _)
StopRows(stops, i, next_stop_idx) ==
    IF i > Len(stops) THEN <<>>
    ELSE IF ~Truthy(Get(stops[i].stop)) THEN StopRows(stops, i + 1, next_stop_idx)
    ELSE <<StopRow(stops[i], i, next_stop_idx)>>
         \o (IF next_stop_idx # 0 /\ i = next_stop_idx - 1 THEN <<Divider>> ELSE <<>>)
         \o StopRows(stops, i + 1, next_stop_idx)

\* [s['stop'][...] for s in stops if s.get('stop')]
RECURSIVE WithStop(_)
WithStop(stops) ==
    IF stops = <<>> THEN <<>>
    ELSE IF Truthy(Get(Head(stops).stop)) THEN <<Head(stops)>> \o WithStop(Tail(stops))
         ELSE WithStop(Tail(stops))

StopsTrace(stops) ==
    LET ss == WithStop(stops)
    IN [name |-> "Stops",
        lat |-> [i \in 1..Len(ss) |-> ss[i].stop.lat.v],
        lon |-> [i \in 1..Len(ss) |-> ss[i].stop.lon.v],
        text |-> [i \in 1..Len(ss) |-> ss[i].stop.name.v]]

\* the exception building stops_info raises, "" when it raises none
PanelError(train, stops, next_stop_idx) ==
    IF train.route.tag = "none" THEN "TypeError"
    ELSE IF train.route.longName.tag = "absent" THEN "KeyError"
    ELSE IF train.route.longName.tag # "str" \/ train.name.tag # "str" THEN "TypeError"
    ELSE IF WithStop(stops) = <<>> THEN "IndexError"
    ELSE IF next_stop_idx # 0 /\ stops[next_stop_idx].stop.tag = "absent" THEN "KeyError"
    ELSE IF next_stop_idx # 0 /\ stops[next_stop_idx].stop.tag = "none" THEN "TypeError"
    ELSE ""

Panel(train, stops, now_sec) ==
    LET next_stop_idx == NextStopIdx(stops, now_sec)
        delay_val == DelayVal(stops, now_sec)
        names == StopsTrace(stops).text
    IN [tag |-> "panel",
        now_sec |-> now_sec,
        title |-> train.route.longName.v \o " - " \o train.name.v,
        from |-> names[1], to |-> names[Len(names)],
        next_stop_idx |-> next_stop_idx,
        next |-> IF next_stop_idx # 0
                 THEN "Next stop: " \o stops[next_stop_idx].stop.name.v
                 ELSE "End of route",
        delay_val |-> delay_val,
        delay_min |-> DelayMin(delay_val),
        delay_color |-> DelayColor(delay_val),
        rows |-> StopRows(stops, 1, next_stop_idx)]

----------------------------------------------------------------------------
(* update_map *)

NoInfo == Str("")

\* what one invocation of update_map does: it returns a figure (its traces and
\* its mapbox layout) and the info panel, or it raises; requests counts the
\* route-geometry requests it issued on the way
Returned(traces, zoom, info, requests) ==
    [status |-> "ok", error |-> "", traces |-> traces,
     center |-> <<CenterLat, CenterLon>>, zoom |-> zoom,
     info |-> info, requests |-> requests]

Raised(error, requests) ==
    [status |-> "raised", error |-> error, traces |-> <<>>,
     center |-> <<CenterLat, CenterLon>>, zoom |-> DefaultZoom,
     info |-> NoInfo, requests |-> requests]

NotRendered ==
    [status |-> "none", error |-> "", traces |-> <<>>,
     center |-> <<CenterLat, CenterLon>>, zoom |-> DefaultZoom,
     info |-> NoInfo, requests |-> 0]

\* next((t for t in trains if str(t.get('vehicleId')) == vehicle_id), None),
\* then the same on str(t.get('name')); 0 stands for None
FindTrain(trains, vehicle_id) ==
    LET byId == {i \in 1..Len(trains) : PyStr(trains[i].vehicleId) = vehicle_id}
        byName == {i \in 1..Len(trains) : PyStr(trains[i].name) = vehicle_id}
    IN IF byId # {} THEN CHOOSE i \in byId : \A j \in byId : i <= j
       ELSE IF byName # {} THEN CHOOSE i \in byName : \A j \in byName : i <= j
       ELSE 0

\* vehicle_positions as update_map reads it: [] unless it is a list
VehicleList(vehicle_data) ==
    IF vehicle_data.data.vehiclePositions.tag = "list"
    THEN vehicle_data.data.vehiclePositions.v ELSE <<>>

\* the part of update_map after the markers are drawn: the click
Detail(base, trains, cd, zoom, now_sec, geometry) ==
    IF ~HasPoints(cd) THEN Returned(base, zoom, NoInfo, 0)
    ELSE LET k == FindTrain(trains, PyStr(cd.customdata))
         IN IF k = 0 THEN Returned(base, zoom, NoInfo, 0)
            ELSE LET train == trains[k]
                     requests == IF Truthy(train.gtfsId) THEN 1 ELSE 0
                     route == IF requests = 1 /\ geometry = "points"
                              THEN <<[name |-> "Route"]>> ELSE <<>>
                 IN IF ~Truthy(train.stoptimes) THEN Returned(base, zoom, NoInfo, 0)
                    ELSE LET stops == train.stoptimes.v
                             err == PanelError(train, stops, NextStopIdx(stops, now_sec))
                         IN IF err # "" THEN Raised(err, requests)
                            ELSE Returned(base \o <<StopsTrace(stops)>> \o route, zoom,
                                          Panel(train, stops, now_sec), requests)

update_map(cd, rd, vehicle_data, now_sec, geometry) ==
    IF ~IsDict(vehicle_data) \/ vehicle_data.data.tag = "absent"
    THEN Returned(<<>>, DefaultZoom, NoInfo, 0)
    ELSE IF ~IsDict(vehicle_data.data) THEN Raised("TypeError", 0)
    ELSE IF vehicle_data.data.vehiclePositions.tag = "absent"
    THEN Returned(<<>>, DefaultZoom, NoInfo, 0)
    ELSE LET vs == VehicleList(vehicle_data)
             zoom == get_bounds(rd).zoom
             bounds == get_bounds(rd).bounds
         IN IF TrainsRaise(vs) THEN Raised("AttributeError", 0)
            ELSE IF get_selected_vehicle_id_raises(cd) THEN Raised("KeyError", 0)
            ELSE IF get_marker_colors_raises(vs) THEN Raised("AttributeError", 0)
            ELSE Detail(<<TrainsTrace(vs, get_selected_vehicle_id(cd))>>
                            \o add_heading_arrows(Trains(vs), vs, bounds, zoom),
                        Trains(vs), cd, zoom, now_sec, geometry)

----------------------------------------------------------------------------
(* The documents, responses and UI events of the running application *)

NoFile == [tag |-> "nofile"]

\* '{"data": {"vehiclePositions": []}}'
DefaultDoc == Doc(<<>>)

\* a 200 answer without a data member ({"errors": [...]}), with data null,
\* with vehiclePositions null
DocNoData == [tag |-> "obj", data |-> Absent]
DocNullData == [tag |-> "obj", data |-> None]
DocNullList == [tag |-> "obj", data |-> [tag |-> "obj", vehiclePositions |-> None]]

St(name, sa, ra, delay) ==
    StopTime(Stop(name, 47, 19), Num(sa), Num(ra), Num(sa), Num(ra), Num(delay))

TripA ==
    Trip(Str("IC1"), Str("1:T1"), Route(Str("Budapest - Wien")),
         List(<<St("S1", 60, 60, 0), St("S2", 120, 180, 60), St("S3", 240, 300, 60)>>))
TripB == Trip(Str("IC2"), None, Route(Str("Budapest - Szeged")), List(<<>>))

VehA == Vehicle(Str("A"), Num(47), Num(19), Num(90), TripA)
VehB == Vehicle(Str("B"), Num(48), Num(20), None, TripB)
VehHidden == Vehicle(Str("H"), None, Num(19), Num(0), TripB)
VehNullTrip == Vehicle(Str("N"), Num(46), Num(18), Num(0), None)

LiveDocs ==
    {Doc(<<>>), Doc(<<VehA>>), Doc(<<VehB>>), Doc(<<VehB, VehNullTrip>>),
     DocNoData, DocNullData}

Failures ==
    {HttpOk(StatusOK, BadJson), HttpOk(StatusOK, None),
     HttpOk(StatusOK + 300, None), HttpException}

\* what the timer's fetches may get
Responses == {HttpOk(StatusOK, d) : d \in LiveDocs} \cup Failures

\* what the fetch at import time may get
BootResponses ==
    {HttpOk(StatusOK, d) : d \in {Doc(<<VehA>>), DocNoData, DocNullList}} \cup Failures

\* the snapshot file a previous run may have left
InitialFiles == {NoFile, Doc(<<VehA>>)}

Box(lat1, lon1, lat2, lon2) ==
    List(<<<<lon1, lat1>>, <<lon2, lat1>>, <<lon2, lat2>>, <<lon1, lat2>>>>)

LiveRelayouts ==
    {Relayout(Num(ZoomThreshold), Box(46, 18, 47, 19)),
     Relayout(Num(ZoomThreshold - 2), Absent)}

NowVals == {30, 400}
Geometries == {"points", "failed"}

\* what a click on the displayed figure can put into clickData: the customdata
\* of a train marker, or a point of the 'Stops' layer, which has no customdata
ClickTargets(fig) ==
    LET T == {k \in 1..Len(fig.traces) : fig.traces[k].name = "Trains"}
        S == {k \in 1..Len(fig.traces) : fig.traces[k].name = "Stops"}
    IN UNION {{Click(Str(fig.traces[k].customdata[i])) :
                    i \in 1..Len(fig.traces[k].customdata)} : k \in T}
       \cup {Click(Absent) : k \in {j \in S : Len(fig.traces[j].lat) > 0}}

----------------------------------------------------------------------------
(* Snapshot Bootstrapper and startup load (module level) *)

\* if not os.path.exists(...): write the fetched document, or the default
BootstrapWrite(resp) ==
    /\ pc = "boot" /\ file = NoFile
    /\ file' = IF get_latest_vehicle_data(resp).value.tag # "none"
               THEN get_latest_vehicle_data(resp).value ELSE DefaultDoc
    /\ writes' = writes + 1
    /\ pc' = "load"
    /\ UNCHANGED <<vehicle_positions, store, lastFetch, lastGood, fetched,
                   clickData, relayoutData, pending, rendered>>

BootstrapSkip ==
    /\ pc = "boot" /\ file # NoFile
    /\ pc' = "load"
    /\ UNCHANGED <<file, writes, vehicle_positions, store, lastFetch, lastGood,
                   fetched, clickData, relayoutData, pending, rendered>>

\* data['data']['vehiclePositions'] raises unless both keys are there
LoadRaises(doc) ==
    \/ ~IsDict(doc.data)
    \/ doc.data.vehiclePositions.tag = "absent"

\* the module-level trains comprehension: iterating None raises, and so does
\* get_train_info
ProjectionRaises(vp) ==
    \/ vp.tag # "list"
    \/ TrainsRaise(vp.v)

Load ==
    /\ pc = "load"
    /\ IF LoadRaises(file)
       THEN pc' = "crashed" /\ UNCHANGED vehicle_positions
       ELSE /\ vehicle_positions' = file.data.vehiclePositions
            /\ pc' = IF ProjectionRaises(file.data.vehiclePositions)
                     THEN "crashed" ELSE "running"
    /\ pending' = (pc' = "running")
    /\ UNCHANGED <<file, writes, store, lastFetch, lastGood, fetched,
                   clickData, relayoutData, rendered>>

----------------------------------------------------------------------------
(* Periodic Refresh Driver: fetch_vehicle_data *)

NoUpdate == [tag |-> "no_update"]

\* a refresh that publishes whatever the fetcher returned, None included
fetch_vehicle_data_publish_all(resp) ==
    [raised |-> FALSE, value |-> get_latest_vehicle_data(resp).value]

\* the callback's return value, or raised = TRUE
fetch_vehicle_data(resp) ==
    LET data == get_latest_vehicle_data(resp)
    IN IF data.raised THEN [raised |-> TRUE, value |-> NoUpdate]
       ELSE IF data.value.tag # "none" THEN [raised |-> FALSE, value |-> data.value]
       ELSE [raised |-> FALSE, value |-> NoUpdate]

\* classification of a response as success, failure or empty
Classify(resp) ==
    IF resp.kind = "exception" \/ resp.status # StatusOK \/ resp.body.tag = "badjson"
    THEN "failure"
    ELSE IF IsDict(resp.body) THEN "success" ELSE "empty"

Tick(resp) ==
    /\ pc = "running" /\ ~pending
    /\ LET r == fetch_vehicle_data(resp)
       IN /\ fetched' = IF r.raised THEN "raised"
                         ELSE IF r.value.tag = "no_update" THEN "no_update" ELSE "data"
          /\ store' = IF r.raised \/ r.value.tag = "no_update" THEN store ELSE r.value
          /\ pending' = (~r.raised /\ r.value.tag # "no_update")
    /\ lastFetch' = Classify(resp)
    /\ lastGood' = IF Classify(resp) = "success" THEN resp.body ELSE lastGood
    /\ UNCHANGED <<pc, file, writes, vehicle_positions, clickData, relayoutData, rendered>>

----------------------------------------------------------------------------
(* The update_map callback and the UI events that trigger it *)

\* a callback that raises leaves its outputs as they were
Render(cd, rd, now_sec, geometry) ==
    LET out == update_map(cd, rd, store, now_sec, geometry)
    IN rendered' = IF out.status = "raised"
                   THEN [rendered EXCEPT !.status = "raised", !.error = out.error,
                                         !.requests = out.requests]
                   ELSE out

\* the store changed (or the page has just loaded)
UpdateMap(now_sec, geometry) ==
    /\ pc = "running" /\ pending
    /\ Render(clickData, relayoutData, now_sec, geometry)
    /\ pending' = FALSE
    /\ UNCHANGED <<pc, file, writes, vehicle_positions, store, lastFetch, lastGood,
                   fetched, clickData, relayoutData>>

\* the user clicks a point of the displayed figure
ClickEvent(cd, now_sec, geometry) ==
    /\ pc = "running" /\ ~pending
    /\ cd \in ClickTargets(rendered)
    /\ clickData' = cd
    /\ Render(cd, relayoutData, now_sec, geometry)
    /\ UNCHANGED <<pc, file, writes, vehicle_positions, store, lastFetch, lastGood,
                   fetched, relayoutData, pending>>

\* the user pans or zooms
RelayoutEvent(rd, now_sec, geometry) ==
    /\ pc = "running" /\ ~pending
    /\ relayoutData' = rd
    /\ Render(clickData, rd, now_sec, geometry)
    /\ UNCHANGED <<pc, file, writes, vehicle_positions, store, lastFetch, lastGood,
                   fetched, clickData, pending>>

----------------------------------------------------------------------------

Init ==
    /\ pc = "boot"
    /\ file \in InitialFiles
    /\ writes = 0
    /\ vehicle_positions = None
    /\ store = None
    /\ lastFetch = "none"
    /\ lastGood = None
    /\ fetched = "none"
    /\ clickData = None
    /\ relayoutData = None
    /\ pending = FALSE
    /\ rendered = NotRendered

Next ==
    \/ \E resp \in BootResponses : BootstrapWrite(resp)
    \/ BootstrapSkip
    \/ Load
    \/ \E resp \in Responses : Tick(resp)
    \/ \E now_sec \in NowVals, geometry \in Geometries : UpdateMap(now_sec, geometry)
    \/ \E cd \in ClickTargets(rendered), now_sec \in NowVals, geometry \in Geometries :
            ClickEvent(cd, now_sec, geometry)
    \/ \E rd \in LiveRelayouts, now_sec \in NowVals, geometry \in Geometries :
            RelayoutEvent(rd, now_sec, geometry)

Spec == Init /\ [][Next]_vars

----------------------------------------------------------------------------
(* update_map on its own: one invocation on every document, click and       *)
(* pan/zoom state of a bounded family                                       *)

MaxVehicles == 2
MaxStops == 3

SeqsUpTo(S, n) == UNION {[1..k -> S] : k \in 0..n}

\* trains with coordinates and a heading, one train without a heading, and
\* records whose latitude or longitude is null, missing or 0
MapVehicles ==
    {VehA,
     Vehicle(Str("B"), Num(48), Num(20), Num(180), TripB),
     Vehicle(Str("C"), Num(46), Num(18), None, TripB),
     Vehicle(Str("H"), None, Num(19), Num(0), TripB),
     Vehicle(Str("H"), Num(0), Num(19), Num(0), TripB),
     Vehicle(Str("H"), Num(47), Absent, Num(0), TripB),
     Vehicle(Str("H"), Num(47), Num(0), Num(0), TripB)}

MapDocs == {Doc(vs) : vs \in SeqsUpTo(MapVehicles, MaxVehicles)}

MapClicks == {None} \cup {Click(Str(id)) : id \in {"A", "B", "H", "Z"}}

MapRelayouts ==
    {None,
     Relayout(Num(ZoomThreshold), Absent),
     Relayout(Num(ZoomThreshold), Box(46, 18, 47, 19)),
     Relayout(Num(ZoomThreshold - 1), Box(46, 18, 47, 19)),
     Relayout(Absent, Box(46, 18, 47, 19))}

\* stop-times: scheduled and real-time arrival (the departure times equal the
\* arrival times), with midnight (0) on either side, one without a real-time
\* arrival that departs later, a late and an early one without a stop object
StopTimes ==
    {StopTime(Stop("S", 47, 19), Num(0), Num(60), Num(0), Num(60), Num(60)),
     StopTime(Stop("S", 47, 19), Num(60), Num(0), Num(60), Num(0), Num(0 - 60)),
     StopTime(Stop("S", 47, 19), Num(60), Num(60), Num(60), Num(60), Num(0)),
     StopTime(Stop("S", 47, 19), Num(60), Num(120), Num(60), Num(120), Num(60)),
     StopTime(Stop("S", 47, 19), Num(120), Num(60), Num(120), Num(60), Num(0 - 60)),
     StopTime(Stop("S", 47, 19), Num(60), None, Num(60), Num(120), None),
     StopTime(None, Num(60), Num(120), Num(60), Num(120), Num(90)),
     StopTime(Absent, Num(60), Num(60), Num(60), Num(60), Num(0))}

ItineraryDocs ==
    {Doc(<<Vehicle(Str("A"), Num(47), Num(19), Num(90),
                   Trip(Str("IC1"), Str("1:T1"), Route(Str("Budapest - Wien")), List(ss)))>>) :
        ss \in SeqsUpTo(StopTimes, MaxStops) \ {<<>>}}

RenderNowVals == {30, 90, 400}

RenderInit ==
    /\ pc = "running"
    /\ file = DefaultDoc
    /\ writes = 1
    /\ vehicle_positions = List(<<>>)
    /\ \/ /\ store \in MapDocs
          /\ clickData \in MapClicks
          /\ relayoutData \in MapRelayouts
       \/ /\ store \in ItineraryDocs
          /\ clickData = Click(Str("A"))
          /\ relayoutData = None
    /\ lastFetch = "success"
    /\ lastGood = store
    /\ fetched = "data"
    /\ pending = TRUE
    /\ rendered = NotRendered

RenderNext ==
    \E now_sec \in RenderNowVals, geometry \in Geometries : UpdateMap(now_sec, geometry)

SpecRender == RenderInit /\ [][RenderNext]_vars

----------------------------------------------------------------------------
(* C1: the periodic refresh *)

\* C1: after any sequence of ticks the store holds exactly the document of the
\* most recent successful fetch (it is still unset if none succeeded); a
\* successful fetch is published, a failed one (non-200 response, exception)
\* returns no-update, and no tick ends in an error.
C1_StoreHoldsLatestSuccess ==
    /\ store = lastGood
    /\ fetched # "raised"
    /\ lastFetch = "success" => fetched = "data"
    /\ lastFetch = "failure" => fetched = "no_update"

\* a failed fetch after a successful one: the store still holds the document
C1_Witness ==
    /\ lastFetch = "failure"
    /\ fetched = "no_update"
    /\ IsDict(store)

----------------------------------------------------------------------------
(* C10: the snapshot bootstrap *)

\* C10: the snapshot file is written at most once, and only when it was
\* absent; once the bootstrap is over the file exists, and the startup load
\* that follows reads data.vehiclePositions from it and does not fail.
C10_StartupLoadNeverFails ==
    /\ writes <= 1
    /\ pc # "boot" => file # NoFile
    /\ pc # "crashed"
    /\ pc = "running" => ~LoadRaises(file)

----------------------------------------------------------------------------
(* C7, C8, C9: what update_map returns on empty, stale and partial input *)

\* update_map has run on the current store, click and pan/zoom state
Settled == pc = "running" /\ ~pending

\* the figure's first trace is the train marker layer
HasMarkerLayer(fig) == Len(fig.traces) >= 1 /\ fig.traces[1].name = "Trains"

ZeroVehicles(doc) ==
    /\ IsDict(doc) /\ IsDict(doc.data)
    /\ doc.data.vehiclePositions.tag = "list"
    /\ Len(doc.data.vehiclePositions.v) = 0

\* C7: with a zero-vehicle document in the store, whatever the click and the
\* pan/zoom state, update_map returns a figure whose marker layer is empty,
\* with the default view (center 47.1625, 19.5033, zoom 7), and an empty
\* info panel, and does not raise.
C7_ZeroVehiclesDefaultView ==
    (Settled /\ ZeroVehicles(store)) =>
        /\ rendered.status = "ok"
        /\ HasMarkerLayer(rendered)
        /\ Len(rendered.traces[1].lat) = 0
        /\ rendered.center = <<CenterLat, CenterLon>>
        /\ rendered.zoom = DefaultZoom
        /\ rendered.info = NoInfo

\* the identifiers a click can match: the vehicle id and the display name of
\* every plotted train
KnownIds(vs) ==
    {PyStr(Get(vs[i].vehicleId)) : i \in {j \in 1..Len(vs) : Plotted(vs[j])}}
        \cup {PyStr(get_train_info(vs[i]).name) :
                i \in {j \in 1..Len(vs) : Plotted(vs[j]) /\ ~get_train_info_raises(vs[j])}}

HasVehicleList(doc) ==
    /\ IsDict(doc) /\ IsDict(doc.data)
    /\ doc.data.vehiclePositions.tag # "absent"

\* the click carries an identifier that matches no train of the document
UnmatchedClick ==
    /\ HasVehicleList(store)
    /\ HasPoints(clickData) /\ clickData.customdata.tag # "absent"
    /\ PyStr(clickData.customdata) \notin KnownIds(VehicleList(store))

\* C8: a click whose identifier matches no train's vehicle id or display name
\* makes update_map return, without raising, an empty info panel and a figure
\* that still holds the train marker layer, and no route-geometry request is
\* issued.
C8_UnmatchedClickEmptyPanel ==
    (Settled /\ UnmatchedClick) =>
        /\ rendered.status = "ok"
        /\ HasMarkerLayer(rendered)
        /\ rendered.info = NoInfo
        /\ rendered.requests = 0

\* C9: whatever fields the stored document and its vehicle records lack,
\* update_map completes without raising; and a document without a usable
\* vehiclePositions list yields the default map (zoom 7) and an empty panel.
C9_PartialDataNeverRaises ==
    (Settled /\ ~get_selected_vehicle_id_raises(clickData)) =>
        /\ rendered.status = "ok"
        /\ ~HasVehicleList(store) =>
                /\ rendered.zoom = DefaultZoom
                /\ rendered.info = NoInfo

----------------------------------------------------------------------------
(* C2, C3, C5: the marker layer and the heading overlay *)

Returned_ok == rendered.status = "ok" /\ HasVehicleList(store)

\* C2: in every figure returned for a document and a selection, the marker
\* of each plotted vehicle has the selection color if the vehicle's identifier
\* is the selected one, and the default color otherwise (marker j takes entry
\* j of the layer's color array).
C2_SelectedMarkerColored ==
    (Returned_ok /\ HasPoints(clickData) /\ clickData.customdata.tag # "absent") =>
        LET shown == PlottedOf(VehicleList(store))
            layer == rendered.traces[1]
        IN \A j \in 1..Len(layer.lat) :
              layer.color[j] = IF Vid(shown[j]) = PyStr(clickData.customdata)
                               THEN SelectionColor ELSE DefaultColor

\* a record has both coordinates, present and non-falsy
Located(v) ==
    /\ v.lat.tag = "num" /\ v.lat.v # 0
    /\ v.lon.tag = "num" /\ v.lon.v # 0

LocatedIdx(vs) == SeqOfSet({i \in 1..Len(vs) : Located(vs[i])})

\* C3: the marker layer's lat, lon, text and customdata arrays hold exactly
\* one entry per vehicle record whose latitude and longitude are both present
\* and non-falsy, in document order; a record whose latitude or longitude is
\* missing, null or 0 has no entry.
C3_OnlyLocatedVehiclesPlotted ==
    Returned_ok =>
        LET vs == VehicleList(store)
            idx == LocatedIdx(vs)
            layer == rendered.traces[1]
        IN /\ Len(layer.lat) = Len(idx) /\ Len(layer.lon) = Len(idx)
           /\ Len(layer.text) = Len(idx) /\ Len(layer.customdata) = Len(idx)
           /\ \A j \in 1..Len(idx) :
                 /\ layer.lat[j] = vs[idx[j]].lat.v
                 /\ layer.lon[j] = vs[idx[j]].lon.v
                 /\ layer.customdata[j] = vs[idx[j]].vehicleId.v
                 /\ layer.text[j][1] = PyStr(get_train_info(vs[idx[j]]).name)

\* a record with latitude 0 ahead of a located one: only the second is plotted
C3_Witness ==
    /\ Returned_ok
    /\ Len(VehicleList(store)) = 2
    /\ VehicleList(store)[1].lat = Num(0)
    /\ Located(VehicleList(store)[2])
    /\ Len(rendered.traces[1].lat) = 1

HeadingLines(fig) == {k \in 1..Len(fig.traces) : fig.traces[k].name = "HeadingLine"}
HeadingArrows(fig) == {k \in 1..Len(fig.traces) : fig.traces[k].name = "HeadingArrow"}

LineInBounds(bounds, line) ==
    /\ bounds.lat_min <= line.lat /\ line.lat <= bounds.lat_max
    /\ bounds.lon_min <= line.lon /\ line.lon <= bounds.lon_max

----------------------------------------------------------------------------
(* C4, C6: the itinerary panel *)

PanelShown == rendered.status = "ok" /\ rendered.info.tag = "panel"

\* the stop sequence of the clicked train
ClickedStops ==
    LET trains == Trains(VehicleList(store))
    IN trains[FindTrain(trains, PyStr(clickData.customdata))].stoptimes.v

\* a real-time value that exceeds the reference time
Exceeds(x, now_sec) == x.tag = "num" /\ x.v > now_sec

Qualifying(stops, now_sec) ==
    {i \in 1..Len(stops) :
        \/ Exceeds(stops[i].realtimeArrival, now_sec)
        \/ Exceeds(stops[i].realtimeDeparture, now_sec)}

\* C4: the next stop is the first entry of the sequence whose real-time
\* arrival or departure exceeds the reference time, and the delay shown is
\* that entry's; if no entry qualifies the panel reads "End of route" and the
\* delay shown is the last stop's.
C4_NextStopIsFirstUpcoming ==
    PanelShown =>
        LET p == rendered.info
            stops == ClickedStops
            Q == Qualifying(stops, p.now_sec)
        IN IF Q = {}
           THEN /\ p.next_stop_idx = 0 /\ p.next = "End of route"
                /\ p.delay_val = stops[Len(stops)].arrivalDelay
                /\ p.delay_min = DelayMin(stops[Len(stops)].arrivalDelay)
           ELSE /\ p.next_stop_idx \in Q
                /\ \A i \in Q : p.next_stop_idx <= i
                /\ p.delay_val = stops[p.next_stop_idx].arrivalDelay
                /\ p.delay_min = DelayMin(stops[p.next_stop_idx].arrivalDelay)

\* the first stop is passed, the second and the third are both upcoming: the
\* second is the next stop
C4_Witness ==
    /\ PanelShown
    /\ Len(ClickedStops) = 3
    /\ Qualifying(ClickedStops, rendered.info.now_sec) = {2, 3}
    /\ rendered.info.next_stop_idx = 2

Rows(p) == {k \in 1..Len(p.rows) : p.rows[k].kind = "row"}

\* C6: a row whose real-time arrival differs from the scheduled one shows the
\* scheduled time struck through, then the real-time time, red if later than
\* scheduled and green otherwise; when the two are equal nothing is struck
\* through.  Midnight (0) is a time like any other.
C6_ArrivalShownAgainstSchedule ==
    PanelShown =>
        \A k \in Rows(rendered.info) :
            LET row == rendered.info.rows[k]
                sa == ClickedStops[row.stop_index].scheduledArrival
                ra == ClickedStops[row.stop_index].realtimeArrival
            IN (sa.tag = "num" /\ ra.tag = "num") =>
                 IF ra.v # sa.v
                 THEN /\ row.arr_struck = Str(seconds_to_hhmm(sa))
                      /\ row.arr.text = seconds_to_hhmm(ra)
                      /\ row.arr.color = IF ra.v > sa.v THEN Red ELSE Green
                 ELSE row.arr_struck = None

----------------------------------------------------------------------------
(* C11: the highlighted row and the divider of the itinerary listing *)

Dividers(p) == {k \in 1..Len(p.rows) : p.rows[k].kind = "divider"}

Highlighted(p) == {k \in Rows(p) : p.rows[k].background = Highlight}

\* entry k of the listing is the row of stop-time i
IsRowOf(p, k, i) ==
    /\ k \in 1..Len(p.rows)
    /\ p.rows[k].kind = "row"
    /\ p.rows[k].stop_index = i

\* C11: in the itinerary panel exactly the row of the next stop is
\* highlighted, and when the next stop is not the first stop of the sequence
\* exactly one divider is inserted, right before the next stop's row and right
\* after the row of the stop preceding it; with no next stop no row is
\* highlighted and there is no divider.  Stop-times without a stop object,
\* which produce no row, change none of this.
C11_NextStopHighlightedAndDivided ==
    PanelShown =>
        LET p == rendered.info
            n == p.next_stop_idx
        IN IF n = 0
           THEN Highlighted(p) = {} /\ Dividers(p) = {}
           ELSE /\ \E k \in Rows(p) : IsRowOf(p, k, n) /\ Highlighted(p) = {k}
                /\ n > 1 =>
                      \E d \in 1..Len(p.rows) :
                          /\ Dividers(p) = {d}
                          /\ IsRowOf(p, d + 1, n)
                          /\ IsRowOf(p, d - 1, n - 1)

\* the same on sequences where every stop-time before the next stop has a
\* stop object
StopsBeforeNextHaveRows ==
    \A i \in 1..(rendered.info.next_stop_idx - 1) : Truthy(Get(ClickedStops[i].stop))

C11_WhenPrecedingStopsHaveRows ==
    (PanelShown /\ StopsBeforeNextHaveRows) => C11_NextStopHighlightedAndDivided

----------------------------------------------------------------------------
(* Clicking the markers update_map published: the page renders a document, *)
(* the user clicks train markers of the displayed figure                    *)

TripOfName(shortName, longName) ==
    Trip(shortName, Str("1:T2"), Route(Str(longName)), TripA.stoptimes)

\* records with a vehicleId, with a tripShortName only (equal to another
\* record's vehicleId), with neither (key missing, or null), with a vehicleId
\* equal to another record's display name, and one that is not plotted
IdVehicles ==
    {VehA,
     Vehicle(Absent, Num(46), Num(18), None, TripOfName(Str("A"), "Budapest - Pecs")),
     Vehicle(Absent, Num(46), Num(18), None, TripOfName(Absent, "Budapest - Gyor")),
     Vehicle(None, Num(46), Num(18), None, TripOfName(None, "Budapest - Eger")),
     Vehicle(Str("IC1"), Num(46), Num(18), None, TripOfName(Str("IC3"), "Budapest - Miskolc")),
     VehHidden}

IdDocs == {Doc(vs) : vs \in SeqsUpTo(IdVehicles, MaxVehicles)}

ClickInit ==
    /\ pc = "running"
    /\ file = DefaultDoc
    /\ writes = 1
    /\ vehicle_positions = List(<<>>)
    /\ store \in IdDocs
    /\ clickData = None
    /\ relayoutData = None
    /\ lastFetch = "success"
    /\ lastGood = store
    /\ fetched = "data"
    /\ pending = TRUE
    /\ rendered = NotRendered

ClickNext ==
    \/ \E now_sec \in NowVals, geometry \in Geometries : UpdateMap(now_sec, geometry)
    \/ \E cd \in ClickTargets(rendered), now_sec \in NowVals, geometry \in Geometries :
            ClickEvent(cd, now_sec, geometry)

SpecClick == ClickInit /\ [][ClickNext]_vars

----------------------------------------------------------------------------
(* C12: a published marker identifier resolves to the marker's own train *)

\* the markers of the displayed figure that carry the clicked identifier
ClickedMarkers ==
    {i \in 1..Len(rendered.traces[1].customdata) :
        rendered.traces[1].customdata[i] = PyStr(clickData.customdata)}

TrainClicked ==
    /\ rendered.status = "ok" /\ HasMarkerLayer(rendered)
    /\ HasPoints(clickData) /\ clickData.customdata.tag # "absent"

\* the panel shown is the one of train t
PanelOf(t) ==
    /\ rendered.info.tag = "panel"
    /\ rendered.info.title = t.route.longName.v \o " - " \o t.name.v

\* C12: the identifier update_map publishes as a marker's customdata resolves,
\* when the marker is clicked against the same document, to the train plotted
\* at that marker: the lookup by vehicle id, then by display name, finds a
\* train, and it is that marker's train, whose itinerary the panel then shows.
C12_PublishedIdResolvesToItsTrain ==
    TrainClicked =>
        LET trains == Trains(VehicleList(store))
        IN \A i \in ClickedMarkers :
              /\ FindTrain(trains, PyStr(clickData.customdata)) = i
              /\ Truthy(trains[i].stoptimes) => PanelOf(trains[i])

\* the same on documents whose plotted records all have a vehicleId, no two
\* of them the same
IdsPresentAndDistinct ==
    LET vs == PlottedOf(VehicleList(store))
    IN /\ \A i \in 1..Len(vs) : Truthy(Get(vs[i].vehicleId))
       /\ \A i, j \in 1..Len(vs) : vs[i].vehicleId = vs[j].vehicleId => i = j

C12_WhenIdsPresentAndDistinct ==
    (TrainClicked /\ IdsPresentAndDistinct) => C12_PublishedIdResolvesToItsTrain

====
